---------------------------- MODULE Spec2Model ----------------------------
(***************************************************************************)
(* A model of the ARIA telemetry pipeline stages (crates/aria-telemetry):  *)
(*   - RxDeJitter, TxConditioner        (ccem.rs)                          *)
(*   - Packetizer / Defragmenter        (packetization.rs)                 *)
(*   - TokenBucket / QoSShaper          (qos.rs)                           *)
(*   - CryptoBox / KeyManager           (crypto.rs)                        *)
(*   - SimpleDeltaCodec                 (delta.rs)                         *)
(*   - ReedSolomonFec                   (fec.rs)                           *)
(*   - ProtobufCodec / SchemaRegistry   (codec.rs)                         *)
(*   - LinkHealthController             (link_health.rs)                   *)
(*   - Quic/MqttSn/Dtn transports       (transport.rs)                     *)
(*   - RecoveryManager                  (recovery.rs)                      *)
(* Every stage is a single-owner object; each gets its own specification   *)
(* (the Spec... definitions at the end of the module) in which the other   *)
(* stages stay in their constructed state.                                 *)
(***************************************************************************)
EXTENDS Integers, Sequences, FiniteSets, TLC

VARIABLES
    now,            \* Instant::now(), in clock ticks
    \* ---- RxDeJitter (ccem.rs:49-53)
    buffer,         \* VecDeque<(u64, Envelope)>
    next_sequence,  \* u64
    arrivals,       \* history: sequence numbers passed to add, in call order
    emitted,        \* history: concatenation of the vectors returned by add
    dj_last,        \* history: what the last add call saw and did
    \* ---- Packetizer / Defragmenter (packetization.rs)
    uuid_counter,   \* number of Uuid::new_v4() values issued so far
    origin,         \* the envelope handed to Packetizer::fragment, or None
    fragments,      \* Vec<Envelope> returned by Packetizer::fragment
    buffers,        \* Defragmenter.buffers: HashMap<Uuid, FragmentBuffer>
    delivered,      \* history: indices of `fragments` passed to add_fragment
    returned,       \* history: envelopes add_fragment returned as Some
    plain_sent,     \* number of unfragmented envelopes passed to add_fragment
    delivered_shared, \* history: fragment ids that arrived under the origin's id
    pk_last,        \* history: input and result of the last add_fragment call
    \* ---- QoSShaper (qos.rs:8-17)
    queues,         \* HashMap<Priority, PriorityQueue>
    enq_count,      \* number of envelopes the producer has built (their ids)
    last_op,        \* history: the QoSShaper / TokenBucket call of the last step
    enq_result,     \* history: what the last enqueue returned
    deq_result,     \* history: what the last dequeue returned
    shape_result,   \* history: what the last shape returned
    dequeued_run,   \* history: envelopes dequeued since the last enqueue
    starved,        \* history: a dequeue of the run met a bucket without a token
    policies,       \* HashMap<String, QoSPolicy>, as a total map to Option
    \* ---- a TokenBucket on its own (qos.rs:19-24)
    bucket,         \* TokenBucket
    last_try,       \* history: the last try_consume call
    consumed_at,    \* history: successful try_consume(1.0) calls per instant
    \* ---- KeyManager (crypto.rs:84-87)
    active_key_id,  \* String
    keys,           \* HashMap<String, CryptoBox>, as a total map to Option
    boxes_made,     \* number of CryptoBox::new calls so far
    km_last,        \* history: the last add_key / rotate call
    \* ---- a CryptoBox on its own (crypto.rs:11-16)
    crypto,         \* CryptoBox
    enc_log,        \* history: the encrypt calls made on it and their results
    dec_last,       \* history: the last decrypt call
    sig_log,        \* history: the sign calls made on it and their results
    ver_last,       \* history: the last verify call
    \* ---- SimpleDeltaCodec, an encoder and a decoder (delta.rs:5-7)
    encoder,        \* SimpleDeltaCodec.previous of the encoder
    decoder,        \* SimpleDeltaCodec.previous of the decoder
    frames,         \* history: frames passed to encoder.encode, in call order
    deltas,         \* the encoder's outputs, in order
    decoded,        \* history: the decoder's outputs, in order
    \* ---- TxConditioner (ccem.rs:10-14)
    last_send,      \* Option<Instant>
    queue,          \* VecDeque<Envelope>
    submitted,      \* history: envelopes passed to condition, in call order
    admitted,       \* history: envelopes condition returned, with the instant
    tx_last,        \* history: the last condition call
    \* ---- ReedSolomonFec (fec.rs)
    fec_input,      \* the (data, k, m) passed to encode, or None
    encoded,        \* what encode returned, or None
    survivors,      \* the shards that reach the receiver: Vec<Option<Vec<u8>>>
    fec_decoded,    \* what decode returned for survivors, or None
    \* ---- ProtobufCodec (codec.rs:7-9, 47-49)
    schemas,        \* SchemaRegistry.schemas: HashMap<u32, String>
    codec_enc,      \* history: the last encode call and what it returned
    codec_dec,      \* history: the last decode call and what it returned
    \* ---- LinkHealthController (link_health.rs:5-7)
    metrics,        \* SystemMetrics, in fixed point (see SystemMetricsOf)
    lh_advice,      \* history: the HomeostasisAdvice the last advise returned
    \* ---- QuicTransport, MqttSnTransport, DtnTransport (transport.rs)
    quic_endpoint,  \* QuicTransport.endpoint: Option<Endpoint>
    dtn_store,      \* DtnTransport.store: VecDeque<Envelope>
    tp_connected,   \* history: transports connected and not disconnected since
    tp_last,        \* history: the last ITransport call and what it returned
    \* ---- RecoveryManager (recovery.rs:5-7)
    lost_packets,   \* Vec<u64>
    rc_recorded,    \* history: how many sequence numbers the gaps so far span
    rc_last,        \* history: the last conceal_loss call and what it returned
    rc_count        \* history: what the last get_lost_count returned, or None

djVars == <<buffer, next_sequence, arrivals, emitted, dj_last>>
pkVars == <<uuid_counter, origin, fragments, buffers, delivered, returned,
           plain_sent, delivered_shared, pk_last>>
qosVars == <<queues, enq_count, enq_result, deq_result, shape_result,
            dequeued_run, starved, policies>>
bkVars == <<bucket, last_try, consumed_at>>
kmVars == <<active_key_id, keys, boxes_made, km_last>>
cbVars == <<crypto, enc_log, dec_last, sig_log, ver_last>>
dcVars == <<encoder, decoder, frames, deltas, decoded>>
txVars == <<last_send, queue, submitted, admitted, tx_last>>
fcVars == <<fec_input, encoded, survivors, fec_decoded>>
cdVars == <<schemas, codec_enc, codec_dec>>
lhVars == <<metrics, lh_advice>>
tpVars == <<quic_endpoint, dtn_store, tp_connected, tp_last>>
rcVars == <<lost_packets, rc_recorded, rc_last, rc_count>>
vars == <<now, last_op, djVars, pkVars, qosVars, bkVars, kmVars, cbVars, dcVars, txVars, fcVars, cdVars, lhVars, tpVars, rcVars>>

\* Option<T>: None is the empty sequence, Some(x) the one-element sequence
None == <<>>
Some(x) == <<x>>

(***************************************************************************)
(* Helpers over sequences.                                                 *)
(***************************************************************************)
\* VecDeque::insert(pos, x), pos counted from 1
InsertAt(s, pos, x) == SubSeq(s, 1, pos - 1) \o <<x>> \o SubSeq(s, pos, Len(s))

Range(s) == {s[i] : i \in 1..Len(s)}

(***************************************************************************)
(*                         RxDeJitter  (ccem.rs)                           *)
(***************************************************************************)
buffer_size == 3      \* RxDeJitter::new(buffer_size)
MaxSeq == 4           \* sequence numbers 0..MaxSeq arrive
MaxAdds == 5          \* number of add calls explored

\* make_envelope(seq): an envelope is its sequence number and its own Uuid
DjEnvelope(seq, id) == [sequence_number |-> seq, id |-> id]

\* ccem.rs:68  position(|(s, _)| *s > seq).unwrap_or(len)
InsertPosTail(buf, seq) == Len(buf) + 1

InsertPos(buf, seq) ==
    IF \E i \in 1..Len(buf) : buf[i][1] > seq
    THEN CHOOSE i \in 1..Len(buf) :
            /\ buf[i][1] > seq
            /\ \A j \in 1..(i - 1) : ~(buf[j][1] > seq)
    ELSE Len(buf) + 1

TrimToSizeBack(buf) ==
    IF Len(buf) > buffer_size THEN SubSeq(buf, 1, Len(buf) - 1) ELSE buf

\* ccem.rs:71-74  trim to size: one pop_front when the length exceeds buffer_size
TrimToSize(buf) == IF Len(buf) > buffer_size THEN Tail(buf) ELSE buf

\* ccem.rs:79  the head is emitted when its sequence equals next_sequence
HeadReadyLe(buf, next) == buf[1][1] <= next

HeadReady(buf, next) == buf[1][1] = next

\* ccem.rs:76-87  the extraction loop
RECURSIVE Extract(_, _, _)
Extract(buf, next, output) ==
    IF buf # <<>> /\ HeadReady(buf, next)
    THEN Extract(Tail(buf), next + 1, Append(output, buf[1][2]))
    ELSE [buffer |-> buf, next_sequence |-> next, output |-> output]

\* ccem.rs:64-90  RxDeJitter::add
RxAdd(buf, next, envelope) ==
    LET seq      == envelope.sequence_number
        pos      == InsertPos(buf, seq)
        inserted == InsertAt(buf, pos, <<seq, envelope>>)
        trimmed  == TrimToSize(inserted)
        r        == Extract(trimmed, next, <<>>)
    IN  [buffer |-> r.buffer, next_sequence |-> r.next_sequence,
         output |-> r.output, overflow |-> Len(inserted) > buffer_size]

DjInit ==
    /\ buffer = <<>>
    /\ next_sequence = 0
    /\ arrivals = <<>>
    /\ emitted = <<>>
    /\ dj_last = [overflow |-> FALSE, gap |-> FALSE, next_before |-> 0,
                  duplicate |-> FALSE, late |-> FALSE]

\* one call of RxDeJitter::add with an arriving envelope
DjAdd ==
    /\ Len(arrivals) < MaxAdds
    /\ \E seq \in 0..MaxSeq :
          LET r == RxAdd(buffer, next_sequence, DjEnvelope(seq, Len(arrivals)))
          IN  /\ buffer' = r.buffer
              /\ next_sequence' = r.next_sequence
              /\ arrivals' = Append(arrivals, seq)
              /\ emitted' = emitted \o r.output
              /\ dj_last' = [overflow    |-> r.overflow,
                             gap         |-> /\ seq > next_sequence
                                             /\ \A i \in 1..Len(buffer) :
                                                    buffer[i][1] > next_sequence,
                             next_before |-> next_sequence,
                             duplicate   |-> \E i \in 1..Len(buffer) :
                                                    buffer[i][1] = seq,
                             late        |-> seq < next_sequence]
    /\ UNCHANGED <<now, last_op, pkVars, qosVars, bkVars, kmVars, cbVars, dcVars, txVars, fcVars, cdVars, lhVars, tpVars, rcVars>>

(***************************************************************************)
(* RxDeJitter: properties                                                  *)
(***************************************************************************)
SeqNumbers(envs) == [i \in 1..Len(envs) |-> envs[i].sequence_number]

\* the arrivals so far are a permutation of 0..N-1 with N <= buffer_size
IsPermutation ==
    /\ Len(arrivals) <= buffer_size
    /\ Range(arrivals) = 0..(Len(arrivals) - 1)

NoDuplicateArrival == Cardinality(Range(arrivals)) = Len(arrivals)

\* C6: when next_sequence is missing (every buffered and arriving sequence
\* number is higher; no duplicates are involved) and the add overflows the
\* buffer, emission skips forward: next_sequence advances past the gap.
C6_GapSkipsForward ==
    (dj_last.overflow /\ dj_last.gap /\ NoDuplicateArrival)
        => next_sequence > dj_last.next_before

\* C7: the buffer never holds two entries with the same sequence number.
C7_NoDuplicateInBuffer ==
    \A i, j \in 1..Len(buffer) : i # j => buffer[i][1] # buffer[j][1]

\* C8: the sequence numbers of the emitted envelopes are strictly increasing
\* over the whole life of the de-jitter, whatever arrives (losses, duplicates,
\* late arrivals).
C8_MonotonicDelivery ==
    \A i, j \in 1..Len(emitted) :
        i < j => emitted[i].sequence_number < emitted[j].sequence_number

C8_Witness ==
    /\ Len(emitted) >= 2
    /\ dj_last.late /\ dj_last.duplicate
    /\ \E i \in 1..Len(arrivals) : arrivals[i] > next_sequence

\* number of entries of the sequence s that equal v
Count(s, v) == Cardinality({i \in 1..Len(s) : s[i] = v})

\* sequence numbers held in a de-jitter buffer, front first
BufferSeqs(buf) == [i \in 1..Len(buf) |-> buf[i][1]]

\* the lowest of the sequence numbers in s
Lowest(s) == CHOOSE v \in Range(s) : \A w \in Range(s) : v <= w

\* C34: after every add the buffer holds at most buffer_size entries, in
\* non-decreasing sequence order; when an insertion makes the buffer exceed
\* buffer_size, the entry with the lowest sequence number is the one dropped:
\* apart from it, every entry held or arriving is still held or was emitted.
C34_BufferBound ==
    /\ [](/\ Len(buffer) <= buffer_size
          /\ \A i \in 1..(Len(buffer) - 1) : buffer[i][1] <= buffer[i + 1][1])
    /\ [][dj_last'.overflow =>
            LET arrived == arrivals'[Len(arrivals')]
                before  == Append(BufferSeqs(buffer), arrived)
                after   == BufferSeqs(buffer')
                             \o SeqNumbers(SubSeq(emitted', Len(emitted) + 1,
                                                  Len(emitted')))
            IN  \A v \in 0..MaxSeq :
                   Count(after, v) = Count(before, v)
                                       - (IF v = Lowest(before) THEN 1 ELSE 0)]_vars

\* an add found the buffer full, dropped its lowest entry and left it full
C34_Witness ==
    /\ dj_last.overflow
    /\ Len(buffer) = buffer_size
    /\ buffer[1][1] > next_sequence

(***************************************************************************)
(*                Packetizer / Defragmenter  (packetization.rs)            *)
(***************************************************************************)
mtu == 2              \* Packetizer::new(mtu)
MaxPayload == 5       \* payload lengths 0..MaxPayload
Bytes == {0, 1}       \* payload byte values explored

MaxPlain == 1         \* unfragmented envelopes that reach the defragmenter

Payloads == UNION {[1..n -> Bytes] : n \in 0..MaxPayload}

\* payloads of the unfragmented envelopes that reach the defragmenter
PlainPayloads == {<<>>, <<1>>}

Min(a, b) == IF a <= b THEN a ELSE b

\* uuid::Uuid::new_v4(): a value no earlier call returned (the n-th call returns n)
NewV4(n) == n

FragmentInfoOneBased(i, num_fragments, start) ==
    [fragment_id |-> i + 1, total_fragments |-> num_fragments,
     fragment_offset |-> start]

\* packetization.rs:37-41  FragmentInfo of fragment i
FragmentInfoOf(i, num_fragments, start) ==
    [fragment_id |-> i, total_fragments |-> num_fragments, fragment_offset |-> start]

\* packetization.rs:35  the id a fragment gets: a fresh Uuid
FragmentId(envelope, counter, i) == NewV4(counter + i)

NeedsNoFragmentationStrict(payload_size) == payload_size < mtu

\* packetization.rs:21  "No fragmentation needed"
NeedsNoFragmentation(payload_size) == payload_size <= mtu

\* packetization.rs:18-47  Packetizer::fragment; ids from `counter` on are unused
Fragment(envelope, counter) ==
    LET payload_size  == Len(envelope.payload)
        num_fragments == (payload_size + mtu - 1) \div mtu
    IN  IF NeedsNoFragmentation(payload_size)
        THEN <<envelope>>
        ELSE [k \in 1..num_fragments |->
                LET i     == k - 1
                    start == i * mtu
                    end   == Min(start + mtu, payload_size)
                IN  [envelope EXCEPT
                        !.id = FragmentId(envelope, counter, i),
                        !.payload = SubSeq(envelope.payload, start + 1, end),
                        !.fragment_info = Some(FragmentInfoOf(i, num_fragments, start))]]

\* packetization.rs:76  the key add_fragment groups by
CorrelationKey(envelope) == envelope.id

\* packetization.rs:93-98  concatenation of the stored fragments 0..total-1
RECURSIVE Reassemble(_, _, _)
Reassemble(frags, i, total) ==
    IF i >= total THEN <<>>
    ELSE (IF i \in DOMAIN frags THEN frags[i] ELSE <<>>)
            \o Reassemble(frags, i + 1, total)

\* HashMap::insert / HashMap::remove on maps modelled as functions
MapInsert(m, k, v) == [x \in (DOMAIN m) \cup {k} |-> IF x = k THEN v ELSE m[x]]
MapRemove(m, k) == [x \in (DOMAIN m) \ {k} |-> m[x]]
EmptyMap == <<>>

StoreFragmentTwice(frags, fragment_id, payload) ==
    IF fragment_id \in DOMAIN frags
    THEN MapInsert(frags, fragment_id + 1000 + Cardinality(DOMAIN frags), payload)
    ELSE MapInsert(frags, fragment_id, payload)

\* packetization.rs:87  buffer.fragments.insert(frag_info.fragment_id, payload)
StoreFragment(frags, fragment_id, payload) == MapInsert(frags, fragment_id, payload)

\* packetization.rs:70-109  Defragmenter::add_fragment at instant t
AddFragment(bufs, envelope, t) ==
    IF envelope.fragment_info = None
    THEN [buffers |-> bufs, result |-> Some(envelope)]
    ELSE
      LET frag_info == envelope.fragment_info[1]
          parent_id == CorrelationKey(envelope)
          entry     == IF parent_id \in DOMAIN bufs
                       THEN bufs[parent_id]
                       ELSE [fragments         |-> EmptyMap,
                             total_fragments   |-> frag_info.total_fragments,
                             original_envelope |-> envelope,
                             last_update       |-> t]
          buffer_   == [entry EXCEPT
                          !.fragments = StoreFragment(entry.fragments,
                                            frag_info.fragment_id, envelope.payload),
                          !.last_update = t]
      IN  IF Cardinality(DOMAIN buffer_.fragments) = buffer_.total_fragments
          THEN [buffers |-> MapRemove(bufs, parent_id),
                result  |-> Some([buffer_.original_envelope EXCEPT
                               !.payload = Reassemble(buffer_.fragments, 0,
                                                      buffer_.total_fragments),
                               !.fragment_info = None])]
          ELSE [buffers |-> MapInsert(bufs, parent_id, buffer_),
                result  |-> None]

\* the envelope is a fragment whose fragment_id is stored for its key already
IsDuplicate(bufs, envelope) ==
    /\ envelope.fragment_info # None
    /\ CorrelationKey(envelope) \in DOMAIN bufs
    /\ envelope.fragment_info[1].fragment_id
          \in DOMAIN bufs[CorrelationKey(envelope)].fragments

timeout == 1          \* Defragmenter::new(timeout), in clock ticks

FreshAlways(buffer_, t) == TRUE

\* packetization.rs:114  the buffers gc_expired retains at instant t
Fresh(buffer_, t) == t - buffer_.last_update < timeout

\* packetization.rs:111-116  Defragmenter::gc_expired at instant t
GcExpired(bufs, t) ==
    [key \in {x \in DOMAIN bufs : Fresh(bufs[x], t)} |-> bufs[key]]

PkInit ==
    /\ uuid_counter = 0
    /\ origin = None
    /\ fragments = <<>>
    /\ buffers = EmptyMap
    /\ delivered = {}
    /\ returned = {}
    /\ plain_sent = 0
    /\ delivered_shared = {}
    /\ pk_last = None

\* metadata.fragment_info of the envelopes handed to Packetizer::fragment:
\* a fresh envelope, or one that already is the first of two fragments
InputFragmentInfo == {None, Some(FragmentInfoOf(0, 2, 0))}

\* the producer builds an envelope (make_envelope) and Packetizer::fragment splits it
PkFragment ==
    /\ origin = None
    /\ \E payload \in Payloads, info \in InputFragmentInfo :
          LET envelope == [id |-> NewV4(uuid_counter), payload |-> payload,
                           fragment_info |-> info]
              frags    == Fragment(envelope, uuid_counter + 1)
          IN  /\ origin' = Some(envelope)
              /\ fragments' = frags
              /\ uuid_counter' = uuid_counter + 1
                                   + (IF frags = <<envelope>> THEN 0 ELSE Len(frags))
    /\ last_op' = "fragment"
    /\ UNCHANGED <<buffers, delivered, returned, plain_sent, delivered_shared,
                   pk_last>>
    /\ UNCHANGED <<now, djVars, qosVars, bkVars, kmVars, cbVars, dcVars, txVars, fcVars, cdVars, lhVars, tpVars, rcVars>>

\* one fragment arrives (any order, repeats allowed): Defragmenter::add_fragment
PkAddFragment ==
    /\ \E k \in 1..Len(fragments) :
          LET r == AddFragment(buffers, fragments[k], now)
          IN  /\ buffers' = r.buffers
              /\ delivered' = delivered \cup {k}
              /\ returned' = IF r.result = None THEN returned
                             ELSE returned \cup {r.result[1]}
              /\ pk_last' = [input |-> fragments[k], result |-> r.result,
                             duplicate |-> IsDuplicate(buffers, fragments[k])]
    /\ last_op' = "add_fragment"
    /\ UNCHANGED <<uuid_counter, origin, fragments, plain_sent, delivered_shared>>
    /\ UNCHANGED <<now, djVars, qosVars, bkVars, kmVars, cbVars, dcVars, txVars, fcVars, cdVars, lhVars, tpVars, rcVars>>

\* the scheduled sweep: Defragmenter::gc_expired
PkGcExpired ==
    /\ buffers' = GcExpired(buffers, now)
    /\ last_op' = "gc_expired"
    /\ UNCHANGED <<uuid_counter, origin, fragments, delivered, returned, plain_sent,
                   delivered_shared, pk_last>>
    /\ UNCHANGED <<now, djVars, qosVars, bkVars, kmVars, cbVars, dcVars, txVars, fcVars, cdVars, lhVars, tpVars, rcVars>>

\* time since the buffer of `key` was last updated
Age(key) == now - buffers[key].last_update

MaxFragmentId == 2    \* arriving fragment_id values 0..MaxFragmentId
MaxTotal == 2         \* arriving total_fragments values 1..MaxTotal

\* a fragment as it arrives from the network: any metadata, one correlation key
ArrivingFragment(fragment_id, total, payload) ==
    [id |-> NewV4(0), payload |-> payload,
     fragment_info |-> Some(FragmentInfoOf(fragment_id, total, fragment_id))]

\* a fragment with arbitrary metadata arrives: Defragmenter::add_fragment
PkAddArriving ==
    /\ \E fragment_id \in 0..MaxFragmentId, total \in 1..MaxTotal,
          payload \in PlainPayloads :
          LET envelope == ArrivingFragment(fragment_id, total, payload)
              r        == AddFragment(buffers, envelope, now)
          IN  /\ buffers' = r.buffers
              /\ returned' = IF r.result = None THEN returned
                             ELSE returned \cup {r.result[1]}
              /\ pk_last' = [input |-> envelope, result |-> r.result,
                             duplicate |-> IsDuplicate(buffers, envelope)]
    /\ last_op' = "add_fragment"
    /\ UNCHANGED <<uuid_counter, origin, fragments, delivered, plain_sent,
                   delivered_shared>>
    /\ UNCHANGED <<now, djVars, qosVars, bkVars, kmVars, cbVars, dcVars, txVars, fcVars, cdVars, lhVars, tpVars, rcVars>>

\* C37: add_fragment emits a reassembled envelope only when a fragment has
\* been received for every index in [0, total_fragments) of that buffer,
\* whatever metadata the arriving fragments carry.
C37_CompleteReassembly ==
    [][(last_op' = "add_fragment" /\ pk_last'.input.fragment_info # None
            /\ pk_last'.result # None) =>
        LET key      == CorrelationKey(pk_last'.input)
            info     == pk_last'.input.fragment_info[1]
            held     == IF key \in DOMAIN buffers
                        THEN DOMAIN buffers[key].fragments ELSE {}
            total    == IF key \in DOMAIN buffers
                        THEN buffers[key].total_fragments
                        ELSE info.total_fragments
        IN  \A i \in 0..(total - 1) : i \in held \cup {info.fragment_id}]_vars

\* fragment k as a sender that keeps the origin's id on every fragment sends it
SharedKeyFragment(k) == [fragments[k] EXCEPT !.id = origin[1].id]

\* a fragment that carries the origin's id arrives (any order, repeats allowed)
PkAddShared ==
    /\ Len(fragments) > 1
    /\ \E k \in 1..Len(fragments) :
          LET envelope == SharedKeyFragment(k)
              r        == AddFragment(buffers, envelope, now)
          IN  /\ buffers' = r.buffers
              /\ delivered_shared' = delivered_shared
                                        \cup {envelope.fragment_info[1].fragment_id}
              /\ returned' = IF r.result = None THEN returned
                             ELSE returned \cup {r.result[1]}
              /\ pk_last' = [input |-> envelope, result |-> r.result,
                             duplicate |-> IsDuplicate(buffers, envelope)]
    /\ last_op' = "add_fragment"
    /\ UNCHANGED <<uuid_counter, origin, fragments, delivered, plain_sent>>
    /\ UNCHANGED <<now, djVars, qosVars, bkVars, kmVars, cbVars, dcVars, txVars, fcVars, cdVars, lhVars, tpVars, rcVars>>

\* an envelope that was never fragmented arrives: Defragmenter::add_fragment
PkAddPlain ==
    /\ plain_sent < MaxPlain
    /\ \E payload \in PlainPayloads :
          LET envelope == [id |-> NewV4(uuid_counter), payload |-> payload,
                           fragment_info |-> None]
              r        == AddFragment(buffers, envelope, now)
          IN  /\ buffers' = r.buffers
              /\ returned' = IF r.result = None THEN returned
                             ELSE returned \cup {r.result[1]}
              /\ pk_last' = [input |-> envelope, result |-> r.result,
                             duplicate |-> FALSE]
    /\ uuid_counter' = uuid_counter + 1
    /\ plain_sent' = plain_sent + 1
    /\ last_op' = "add_fragment"
    /\ UNCHANGED <<origin, fragments, delivered, delivered_shared>>
    /\ UNCHANGED <<now, djVars, qosVars, bkVars, kmVars, cbVars, dcVars, txVars, fcVars, cdVars, lhVars, tpVars, rcVars>>

(***************************************************************************)
(* Packetizer / Defragmenter: properties                                   *)
(***************************************************************************)
\* C1: once every fragment of an envelope whose payload is longer than the MTU
\* has been fed to the defragmenter (any order, repeats allowed), add_fragment
\* has returned a reassembled envelope with the original payload and no
\* fragment_info.
C1_FragmentRoundTrip ==
    (origin # None /\ Len(origin[1].payload) > mtu
        /\ delivered = 1..Len(fragments))
    => \E e \in returned :
          e.payload = origin[1].payload /\ e.fragment_info = None

\* C2: all fragments of one origin envelope carry the origin envelope's id as
\* their correlation key, and the defragmenter holds at most one FragmentBuffer
\* for them, keyed by that id.
C2_SharedCorrelationKey ==
    (origin # None /\ Len(origin[1].payload) > mtu) =>
        /\ \A k \in 1..Len(fragments) : CorrelationKey(fragments[k]) = origin[1].id
        /\ DOMAIN buffers \subseteq {origin[1].id}

\* the least N with N * MTU >= L
CeilDiv(L, m) == CHOOSE n \in 0..L : n * m >= L /\ (n - 1) * m < L

\* C19: an envelope whose payload length L exceeds the MTU is split into
\* N = ceil(L / MTU) fragments, returned in fragment_id order 0..N-1; every
\* fragment carries total_fragments = N and fragment_offset = fragment_id * MTU,
\* its payload is the MTU bytes of the original at that offset, except the
\* last, whose payload is the remaining L - (N-1) * MTU bytes.
C19_FragmentLayout ==
    (origin # None /\ Len(origin[1].payload) > mtu) =>
        LET payload == origin[1].payload
            L == Len(payload)
            N == CeilDiv(L, mtu)
        IN  /\ Len(fragments) = N
            /\ \A k \in 1..Len(fragments) :
                  LET offset == (k - 1) * mtu
                      size   == IF k < N THEN mtu ELSE L - (N - 1) * mtu
                  IN  /\ fragments[k].fragment_info =
                            Some([fragment_id |-> k - 1, total_fragments |-> N,
                                  fragment_offset |-> offset])
                      /\ Len(fragments[k].payload) = size
                      /\ fragments[k].payload =
                            SubSeq(payload, offset + 1, offset + size)

\* an envelope was split into three fragments, the last one shorter than the MTU
C19_Witness ==
    /\ origin # None
    /\ Len(origin[1].payload) > 2 * mtu
    /\ Len(fragments) = 3
    /\ Len(fragments[3].payload) < mtu
    /\ Len(fragments[3].payload) > 0

\* C21: a fragment whose fragment_id is stored for its correlation key already
\* leaves the set of stored fragment ids as it was and returns None; as long as
\* fewer than N distinct fragments of an envelope have arrived under its id,
\* however many copies, add_fragment has returned no reassembled envelope of it.
C21_DuplicateIdempotent ==
    /\ []((origin # None /\ Len(fragments) > 1
            /\ Cardinality(delivered_shared) < Len(fragments))
           => \A e \in returned : e.id # origin[1].id)
    /\ [][(last_op' = "add_fragment" /\ pk_last'.duplicate) =>
            LET key == CorrelationKey(pk_last'.input)
            IN  /\ pk_last'.result = None
                /\ key \in DOMAIN buffers'
                /\ DOMAIN buffers'[key].fragments = DOMAIN buffers[key].fragments]_vars

\* all fragments but one have arrived under the origin's id, the last arrival
\* was a second copy, and nothing was emitted
C21_Witness ==
    /\ last_op = "add_fragment"
    /\ Len(fragments) > 1
    /\ Cardinality(delivered_shared) = Len(fragments) - 1
    /\ pk_last.duplicate
    /\ pk_last.input.id = origin[1].id
    /\ pk_last.result = None
    /\ DOMAIN buffers[origin[1].id].fragments = delivered_shared

\* the last add_fragment call was given an envelope that is not a fragment
PassedThrough ==
    /\ last_op = "add_fragment"
    /\ pk_last.input.fragment_info = None

\* C20: fragment returns exactly the one input envelope, fragment_info
\* untouched, when the payload fits the MTU; add_fragment returns an envelope
\* without fragment_info at once and unchanged, and leaves every buffer as it was.
C20_PassThrough ==
    /\ []((origin # None /\ Len(origin[1].payload) <= mtu)
            => fragments = <<origin[1]>>)
    /\ [][PassedThrough' =>
            (pk_last'.result = Some(pk_last'.input) /\ buffers' = buffers)]_vars

\* an envelope that fits the MTU and already carried fragment_info came back
\* from fragment as it was and opened a buffer; then an unfragmented envelope
\* passed through add_fragment
C20_Witness ==
    /\ origin # None
    /\ Len(origin[1].payload) = mtu
    /\ origin[1].fragment_info # None
    /\ fragments = <<origin[1]>>
    /\ buffers # EmptyMap
    /\ PassedThrough
    /\ pk_last.result = Some(pk_last.input)

(***************************************************************************)
(*                        TokenBucket  (qos.rs)                            *)
(* f32 token counts are fixed-point numbers: TokenUnit units make one      *)
(* token; refill rates are units per clock tick.                           *)
(***************************************************************************)
TokenUnit == 2        \* units per token
MaxTime == 2          \* the clock runs over 0..MaxTime

\* qos.rs:27-34  TokenBucket::new(capacity, refill_rate) at instant t
TokenBucketNew(capacity, refill_rate, t) ==
    [capacity |-> capacity, tokens |-> capacity,
     refill_rate |-> refill_rate, last_refill |-> t]

\* qos.rs:36-41  TokenBucket::refill at instant t
RefillKeepsLast(b, t) ==
    [b EXCEPT !.tokens = Min(b.tokens + (t - b.last_refill) * b.refill_rate,
                             b.capacity)]

Refill(b, t) ==
    [b EXCEPT !.tokens = Min(b.tokens + (t - b.last_refill) * b.refill_rate,
                             b.capacity),
              !.last_refill = t]

\* qos.rs:43-51  TokenBucket::try_consume(count) at instant t; count in tokens
TryConsume(b, count, t) ==
    LET r == Refill(b, t)
    IN  IF r.tokens >= count * TokenUnit
        THEN [bucket |-> [r EXCEPT !.tokens = r.tokens - count * TokenUnit],
              ok |-> TRUE]
        ELSE [bucket |-> r, ok |-> FALSE]

(***************************************************************************)
(*                         QoSShaper  (qos.rs)                             *)
(***************************************************************************)
\* entities.rs:24-29  Priority::P0 .. Priority::P3
Priorities == {0, 1, 2, 3}
LastPriority == 3

\* qos.rs:62-66  default_policy, scaled down
burst_size == 2           \* tokens
max_rate_per_tick == 2    \* units per tick
max_queue_depth == 2
MaxEnqueue == 3           \* envelopes built over a run

\* make_envelope(priority, seq)
QosEnvelope(id, priority) == [id |-> id, priority |-> priority, topic |-> "test"]

\* topics named in set_policy calls
Topics == {"test", "other"}

\* the policy passed to set_policy: tighter than the default in every field
OverridePolicy == [max_rate_per_sec |-> 1, burst_size |-> 1, max_queue_depth |-> 1]

\* qos.rs:126-128  IQoSShaper::set_policy
SetPolicy(pols, topic, policy) == [pols EXCEPT ![topic] = Some(policy)]

\* qos.rs:55-83  QoSShaper::new at instant t
QoSShaperNew(t) ==
    [p \in Priorities |->
        [queue        |-> <<>>,
         token_bucket |-> TokenBucketNew(burst_size * TokenUnit,
                                         max_rate_per_tick, t),
         max_depth    |-> max_queue_depth]]

\* qos.rs:88-91  the queue after making room for one more envelope
MakeRoomNever(q) == q.queue

MakeRoom(q) == IF Len(q.queue) >= q.max_depth THEN Tail(q.queue) ELSE q.queue

\* qos.rs:85-95  QoSShaper::enqueue
Enqueue(qs, envelope) ==
    [qs EXCEPT ![envelope.priority].queue =
                    Append(MakeRoom(qs[envelope.priority]), envelope)]

\* qos.rs:102  VecDeque::pop_front on a non-empty queue
PopBack(q) == [envelope |-> q[Len(q)], rest |-> SubSeq(q, 1, Len(q) - 1)]

PopFront(q) == [envelope |-> Head(q), rest |-> Tail(q)]

\* qos.rs:99  the order in which dequeue visits the priorities
ScanOrderReversed(p) == LastPriority - p

ScanOrder(p) == p

\* qos.rs:97-110  QoSShaper::dequeue at instant t, from the n-th priority on
RECURSIVE DequeueFrom(_, _, _)
DequeueFrom(qs, n, t) ==
    IF n > LastPriority
    THEN [queues |-> qs, result |-> None]
    ELSE
      LET p   == ScanOrder(n)
          tc  == TryConsume(qs[p].token_bucket, 1, t)
          qs1 == [qs EXCEPT ![p].token_bucket = tc.bucket]
      IN  IF tc.ok /\ qs1[p].queue # <<>>
          THEN [queues |-> [qs1 EXCEPT ![p].queue = PopFront(qs1[p].queue).rest],
                result |-> Some(PopFront(qs1[p].queue).envelope)]
          ELSE DequeueFrom(qs1, n + 1, t)

Dequeue(qs, t) == DequeueFrom(qs, 0, t)

\* tokens a bucket holds once refilled for the time elapsed up to t
Available(b, t) == Refill(b, t).tokens

QosInit ==
    /\ queues = QoSShaperNew(0)
    /\ enq_count = 0
    /\ enq_result = None
    /\ deq_result = None
    /\ shape_result = None
    /\ dequeued_run = <<>>
    /\ starved = FALSE
    /\ policies = [topic \in Topics |-> None]

\* QoSShaper::enqueue(make_envelope(priority, ..))
QosEnqueue ==
    /\ enq_count < MaxEnqueue
    /\ \E priority \in Priorities :
          queues' = Enqueue(queues, QosEnvelope(enq_count, priority))
    /\ enq_count' = enq_count + 1
    /\ enq_result' = Some("Ok")
    /\ dequeued_run' = <<>>
    /\ starved' = FALSE
    /\ last_op' = "enqueue"
    /\ UNCHANGED <<deq_result, shape_result, policies>>
    /\ UNCHANGED <<now, djVars, pkVars, bkVars, kmVars, cbVars, dcVars, txVars, fcVars, cdVars, lhVars, tpVars, rcVars>>

\* QoSShaper::dequeue()
QosDequeue ==
    /\ LET r == Dequeue(queues, now)
       IN  /\ queues' = r.queues
           /\ deq_result' = r.result
           /\ dequeued_run' = dequeued_run \o r.result
    /\ starved' = (starved \/ \E p \in Priorities :
                        Available(queues[p].token_bucket, now) < TokenUnit)
    /\ last_op' = "dequeue"
    /\ UNCHANGED <<enq_count, enq_result, shape_result, policies>>
    /\ UNCHANGED <<now, djVars, pkVars, bkVars, kmVars, cbVars, dcVars, txVars, fcVars, cdVars, lhVars, tpVars, rcVars>>

\* qos.rs:115-124  IQoSShaper::shape(make_envelope(priority, ..))
QosShape ==
    /\ enq_count < MaxEnqueue
    /\ \E priority \in Priorities :
          LET envelope == QosEnvelope(enq_count, priority)
              qs1      == Enqueue(queues, envelope)
              r        == Dequeue(qs1, now)
          IN  /\ queues' = r.queues
              /\ deq_result' = r.result
              /\ shape_result' = IF r.result # None THEN r.result
                                 ELSE Some(envelope)
              /\ dequeued_run' = r.result
              /\ starved' = \E p \in Priorities :
                                Available(qs1[p].token_bucket, now) < TokenUnit
    /\ enq_count' = enq_count + 1
    /\ enq_result' = Some("Ok")
    /\ last_op' = "shape"
    /\ UNCHANGED policies
    /\ UNCHANGED <<now, djVars, pkVars, bkVars, kmVars, cbVars, dcVars, txVars, fcVars, cdVars, lhVars, tpVars, rcVars>>

\* shaper.set_policy(topic, policy)
QosSetPolicy ==
    /\ \E topic \in Topics : policies' = SetPolicy(policies, topic, OverridePolicy)
    /\ last_op' = "set_policy"
    /\ UNCHANGED <<queues, enq_count, enq_result, deq_result, shape_result,
                   dequeued_run, starved>>
    /\ UNCHANGED <<now, djVars, pkVars, bkVars, kmVars, cbVars, dcVars, txVars, fcVars, cdVars, lhVars, tpVars, rcVars>>

\* time passes
Tick ==
    /\ now < MaxTime
    /\ now' = now + 1
    /\ last_op' = "tick"
    /\ UNCHANGED <<djVars, pkVars, qosVars, bkVars, kmVars, cbVars, dcVars, txVars, fcVars, cdVars, lhVars, tpVars, rcVars>>

(***************************************************************************)
(* A TokenBucket on its own                                                *)
(***************************************************************************)
bk_capacity == 2      \* TokenBucket::new(capacity, ..), in tokens
bk_refill_rate == 1   \* TokenBucket::new(.., refill_rate), in units per tick
MaxCount == 2         \* try_consume(count) is called with count in 1..MaxCount

BkInit ==
    /\ bucket = TokenBucketNew(bk_capacity * TokenUnit, bk_refill_rate, 0)
    /\ last_try = None
    /\ consumed_at = [t \in 0..MaxTime |-> 0]

\* TokenBucket::try_consume(count)
BkTryConsume ==
    /\ \E count \in 1..MaxCount :
          LET r == TryConsume(bucket, count, now)
          IN  /\ bucket' = r.bucket
              /\ last_try' = Some([count |-> count, ok |-> r.ok,
                                   available |-> Available(bucket, now)])
              /\ consumed_at' = IF r.ok /\ count = 1
                                THEN [consumed_at EXCEPT ![now] = @ + 1]
                                ELSE consumed_at
    /\ last_op' = "try_consume"
    /\ UNCHANGED <<now, djVars, pkVars, qosVars, kmVars, cbVars, dcVars, txVars, fcVars, cdVars, lhVars, tpVars, rcVars>>

\* TokenBucket::refill()
BkRefill ==
    /\ bucket' = Refill(bucket, now)
    /\ last_op' = "refill"
    /\ UNCHANGED <<last_try, consumed_at>>
    /\ UNCHANGED <<now, djVars, pkVars, qosVars, kmVars, cbVars, dcVars, txVars, fcVars, cdVars, lhVars, tpVars, rcVars>>

(***************************************************************************)
(* QoSShaper / TokenBucket: properties                                     *)
(***************************************************************************)
\* a leaves the shaper before b under strict priority, FIFO within a priority
\* (ids are handed out in enqueue order)
EnvBefore(a, b) ==
    \/ a.priority < b.priority
    \/ a.priority = b.priority /\ a.id < b.id

Queued == UNION {Range(queues[p].queue) : p \in Priorities}

\* C3: while every bucket holds at least one token at each dequeue, the
\* envelopes dequeued after a series of enqueues come out strictly by priority
\* (P0 first) and in enqueue order within one priority: each dequeued envelope
\* precedes every later dequeued one and every envelope still queued.
C3_QoSPriorityOrder ==
    ~starved =>
        /\ \A i, j \in 1..Len(dequeued_run) :
              i < j => EnvBefore(dequeued_run[i], dequeued_run[j])
        /\ \A i \in 1..Len(dequeued_run) : \A e \in Queued :
              EnvBefore(dequeued_run[i], e)

C3_Witness ==
    /\ ~starved
    /\ Len(dequeued_run) = 3
    /\ dequeued_run[1].priority = dequeued_run[2].priority
    /\ dequeued_run[2].priority < dequeued_run[3].priority
    /\ dequeued_run[3].id < dequeued_run[1].id

\* priority p has a queued envelope and, once refilled, at least one token
Qualifies(p) ==
    /\ queues[p].queue # <<>>
    /\ Available(queues[p].token_bucket, now) >= TokenUnit

\* C4: dequeue returns the head of the queue of the first priority, P0 to P3,
\* that has a queued envelope and a token, and removes it; it returns nothing
\* exactly when no priority has both.
C4_DequeueSelects ==
    [][last_op' = "dequeue" =>
          IF \E p \in Priorities : Qualifies(p)
          THEN LET p == CHOOSE x \in Priorities :
                          Qualifies(x) /\ \A y \in Priorities : Qualifies(y) => x <= y
               IN  /\ deq_result' = Some(Head(queues[p].queue))
                   /\ queues'[p].queue = Tail(queues[p].queue)
                   /\ \A o \in Priorities \ {p} : queues'[o].queue = queues[o].queue
          ELSE /\ deq_result' = None
               /\ \A o \in Priorities : queues'[o].queue = queues[o].queue]_vars

\* a dequeue has just passed over a higher priority that has queued envelopes
\* but no token
C4_Witness ==
    /\ last_op = "dequeue"
    /\ deq_result # None
    /\ \E p \in Priorities :
          /\ p < deq_result[1].priority
          /\ queues[p].queue # <<>>
          /\ queues[p].token_bucket.tokens < TokenUnit

QueueDepthOk ==
    \A p \in Priorities : Len(queues[p].queue) <= queues[p].max_depth

\* C9: every priority queue holds at most max_queue_depth envelopes at all
\* times; an enqueue on a full queue drops the oldest envelope of that
\* priority, an enqueue appends the new envelope at the tail, touches no other
\* queue and returns Ok.
C9_QueueDepth ==
    /\ []QueueDepthOk
    /\ [][last_op' = "enqueue" =>
            \E p \in Priorities :
               LET q == queues[p].queue
               IN  /\ queues'[p].queue =
                         (IF Len(q) = queues[p].max_depth THEN Tail(q) ELSE q)
                            \o <<QosEnvelope(enq_count, p)>>
                   /\ \A o \in Priorities \ {p} : queues'[o] = queues[o]
                   /\ enq_result' = Some("Ok")]_vars

\* an enqueue on a full queue has just dropped the oldest envelope: nothing was
\* ever dequeued (the P0 bucket is untouched), yet envelope 0 is gone
C9_Witness ==
    /\ last_op = "enqueue"
    /\ queues[0].token_bucket = TokenBucketNew(burst_size * TokenUnit,
                                               max_rate_per_tick, 0)
    /\ enq_count = max_queue_depth + 1
    /\ \E p \in Priorities :
          /\ Len(queues[p].queue) = max_queue_depth
          /\ Head(queues[p].queue).id = 1
          /\ queues[p].queue[max_queue_depth].id = max_queue_depth

RECURSIVE ConsumedIn(_, _)
\* successful single-token consumptions at the instants t1..t2
ConsumedIn(t1, t2) ==
    IF t1 > t2 THEN 0 ELSE consumed_at[t1] + ConsumedIn(t1 + 1, t2)

\* C10: a bucket of capacity C and refill rate R starts full, its token count
\* stays within [0, C], try_consume(n) succeeds exactly when at least n tokens
\* are available after refilling, and over any window [t1, t2] at most
\* C + R * (t2 - t1) single-token consumptions succeed.
C10_TokenBucket ==
    /\ last_op = "new" => bucket.tokens = bucket.capacity
    /\ 0 <= bucket.tokens /\ bucket.tokens <= bucket.capacity
    /\ last_try # None =>
          (last_try[1].ok <=> last_try[1].available >= last_try[1].count * TokenUnit)
    /\ \A t1, t2 \in 0..now :
          t1 <= t2 => ConsumedIn(t1, t2) * TokenUnit
                         <= bucket.capacity + bucket.refill_rate * (t2 - t1)

\* the bucket was drained at instant 0, refilled over time, served another
\* consumption and then refused one
C10_Witness ==
    /\ now > 0
    /\ consumed_at[0] = bk_capacity
    /\ consumed_at[now] >= 1
    /\ last_try # None /\ ~last_try[1].ok

\* C23: once set_policy(topic, policy) was called, the envelopes of that topic
\* wait in a queue bounded by the policy's max_queue_depth and are rate-limited
\* by a bucket of the policy's burst_size, in place of the defaults.
C23_PolicyOverride ==
    \A topic \in Topics : \A p \in Priorities :
        (policies[topic] # None
            /\ \E i \in 1..Len(queues[p].queue) : queues[p].queue[i].topic = topic)
        => /\ Len(queues[p].queue) <= policies[topic][1].max_queue_depth
           /\ queues[p].max_depth = policies[topic][1].max_queue_depth
           /\ queues[p].token_bucket.capacity
                 = policies[topic][1].burst_size * TokenUnit

\* the envelope e is held in one of the priority queues
StillQueued(e) ==
    \E p \in Priorities : \E i \in 1..Len(queues[p].queue) : queues[p].queue[i].id = e.id

\* C36: an envelope handed to shape is returned at most once: whenever shape
\* returns an envelope, that envelope is no longer held in any priority
\* queue, and no later dequeue returns the envelope the last shape returned.
C36_NoDuplicateEmission ==
    /\ (last_op = "shape" /\ shape_result # None) => ~StillQueued(shape_result[1])
    /\ (last_op = "dequeue" /\ deq_result # None /\ shape_result # None)
          => deq_result[1].id # shape_result[1].id

\* The producer publishes one topic per priority: two envelopes belong to one
\* (source_node, topic) stream when they have the same priority.
SameStream(a, b) == a.priority = b.priority

\* C22: an envelope that leaves the shaper through dequeue was not submitted
\* before an envelope of its stream that shape has returned already (envelope
\* ids count submissions).
C22_NoReorderInStream ==
    (last_op = "dequeue" /\ deq_result # None /\ shape_result # None
        /\ SameStream(deq_result[1], shape_result[1]))
    => deq_result[1].id >= shape_result[1].id

(***************************************************************************)
(*                  CryptoBox / KeyManager  (crypto.rs)                    *)
(***************************************************************************)
MaxBoxes == 3         \* CryptoBox::new calls explored

\* key ids passed to add_key and rotate; the empty String is one of them
KeyIds == {"", "k1", "k2"}

\* crypto.rs:19-34  CryptoBox::new: the n-th call draws the n-th key material
CryptoBoxNew(key_id, n) == [signing_key |-> n, cipher_key |-> n, key_id |-> key_id]

\* crypto.rs:90-95  KeyManager::new
KeyManagerNew == [active_key_id |-> "", keys |-> [k \in KeyIds |-> None]]

AddKeyNoActivate(km, key_id, crypto_box) ==
    [km EXCEPT !.keys[key_id] = Some(crypto_box)]

\* crypto.rs:97-102  KeyManager::add_key
AddKey(km, key_id, crypto_box) ==
    [active_key_id |-> IF km.active_key_id = "" THEN key_id ELSE km.active_key_id,
     keys          |-> [km.keys EXCEPT ![key_id] = Some(crypto_box)]]

\* crypto.rs:108-110  KeyManager::get_key
GetKey(km, key_id) == km.keys[key_id]

\* crypto.rs:104-106  KeyManager::get_active_key
GetActiveKey(km) == km.keys[km.active_key_id]

RotateForgetsOld(km, new_key_id) ==
    IF km.keys[new_key_id] # None /\ new_key_id # km.active_key_id
    THEN [active_key_id |-> new_key_id,
          keys          |-> [km.keys EXCEPT ![km.active_key_id] = None]]
    ELSE km

\* crypto.rs:112-116  KeyManager::rotate
Rotate(km, new_key_id) ==
    IF km.keys[new_key_id] # None
    THEN [km EXCEPT !.active_key_id = new_key_id]
    ELSE km

\* the KeyManager as one value
KeyManager == [active_key_id |-> active_key_id, keys |-> keys]

KmInit ==
    /\ active_key_id = KeyManagerNew.active_key_id
    /\ keys = KeyManagerNew.keys
    /\ boxes_made = 0
    /\ km_last = None

\* manager.add_key(key_id, CryptoBox::new(key_id))
KmAddKey ==
    /\ boxes_made < MaxBoxes
    /\ \E key_id \in KeyIds :
          LET km == AddKey(KeyManager, key_id, CryptoBoxNew(key_id, boxes_made + 1))
          IN  /\ active_key_id' = km.active_key_id
              /\ keys' = km.keys
              /\ km_last' = [key_id |-> key_id, active_before |-> active_key_id]
    /\ boxes_made' = boxes_made + 1
    /\ last_op' = "add_key"
    /\ UNCHANGED <<now, djVars, pkVars, qosVars, bkVars, cbVars, dcVars, txVars, fcVars, cdVars, lhVars, tpVars, rcVars>>

\* manager.rotate(new_key_id)
KmRotate ==
    /\ \E new_key_id \in KeyIds :
          LET km == Rotate(KeyManager, new_key_id)
          IN  /\ active_key_id' = km.active_key_id
              /\ keys' = km.keys
              /\ km_last' = [key_id |-> new_key_id, active_before |-> active_key_id]
    /\ last_op' = "rotate"
    /\ UNCHANGED <<now, boxes_made, djVars, pkVars, qosVars, bkVars, cbVars, dcVars, txVars, fcVars, cdVars, lhVars, tpVars, rcVars>>

(***************************************************************************)
(* KeyManager: properties                                                  *)
(***************************************************************************)
KnownKeyIds == {k \in KeyIds : keys[k] # None}

\* C13: rotate(new_key_id) with an id that was added makes that key the one
\* get_active_key returns and leaves the key set as it was, so get_key still
\* returns every key added before; with an id that was never added it changes
\* neither the active key nor the key set.
C13_KeyRotation ==
    [][last_op' = "rotate" =>
        LET id == km_last'.key_id
        IN  /\ keys' = keys
            /\ \A k \in KnownKeyIds : GetKey(KeyManager', k) = keys[k]
            /\ id \in KnownKeyIds =>
                  /\ active_key_id' = id
                  /\ GetActiveKey(KeyManager') = keys[id]
            /\ id \notin KnownKeyIds => active_key_id' = active_key_id]_vars

\* a rotate call moved the active key from one added key to another
C13_Witness ==
    /\ last_op = "rotate"
    /\ km_last.key_id = active_key_id
    /\ km_last.active_before # active_key_id
    /\ km_last.active_before \in KnownKeyIds
    /\ Cardinality(KnownKeyIds) >= 2

\* C14: once a key has been added, after any sequence of add_key and rotate
\* calls the active key id names a key of the manager: get_active_key returns
\* Some.
C14_ActiveKeyKnown ==
    KnownKeyIds # {} => GetActiveKey(KeyManager) # None

\* keys were added, a rotate to an id never added was refused, and the active
\* key is still there
C14_Witness ==
    /\ last_op = "rotate"
    /\ km_last.key_id \notin KnownKeyIds
    /\ Cardinality(KnownKeyIds) >= 2
    /\ GetActiveKey(KeyManager) # None
    /\ GetActiveKey(KeyManager)[1].key_id = active_key_id

\* C39: add_key makes the added key active only when no key has been added
\* before; once a key has been added, for any key ids (the empty string
\* included) add_key never changes which key id is active.
C39_AddKeyIsNotRotation ==
    [][last_op' = "add_key" =>
        /\ KnownKeyIds = {} => active_key_id' = km_last'.key_id
        /\ KnownKeyIds # {} => active_key_id' = active_key_id]_vars

(***************************************************************************)
(* A CryptoBox on its own: encrypt  (crypto.rs:62-68)                      *)
(***************************************************************************)
MaxEncrypt == 3       \* encrypt calls explored
NonceLen == 12        \* bytes of a ChaCha20-Poly1305 nonce

\* Result<T, AriaError>
Ok(x) == [ok |-> TRUE, value |-> x]
Err(kind) == [ok |-> FALSE, error |-> kind]

\* the nonces callers pass: [0u8; 12] and [1u8; 12]
Nonces == {[i \in 1..NonceLen |-> b] : b \in Bytes}

\* the plaintexts callers pass
Plaintexts == {<<>>, <<0>>, <<1>>}

\* ChaCha20Poly1305::encrypt: the ciphertext is a function of key, nonce and data
AeadSeal(cipher_key, nonce, data) ==
    [sealed_with |-> cipher_key, nonce |-> nonce, plaintext |-> data]

\* crypto.rs:62-68  CryptoBox::encrypt
Encrypt(box, data, nonce) == Ok(AeadSeal(box.cipher_key, nonce, data))

\* ChaCha20Poly1305::decrypt: the tag checks out under the sealing key and nonce only
AeadOpen(cipher_key, nonce, ciphertext) ==
    IF ciphertext.sealed_with = cipher_key /\ ciphertext.nonce = nonce
    THEN Ok(ciphertext.plaintext)
    ELSE Err("aead")

DecryptWithSealedNonce(box, ciphertext, nonce) ==
    LET r == AeadOpen(box.cipher_key, ciphertext.nonce, ciphertext)
    IN  IF r.ok THEN r ELSE Err("Crypto")

\* crypto.rs:70-76  CryptoBox::decrypt
Decrypt(box, ciphertext, nonce) ==
    LET r == AeadOpen(box.cipher_key, nonce, ciphertext)
    IN  IF r.ok THEN r ELSE Err("Crypto")

MaxSign == 3          \* sign calls explored

\* SigningKey::sign: an Ed25519 signature of data under the signing key
Ed25519Sign(signing_key, data) == [signed_with |-> signing_key, message |-> data]

\* VerifyingKey::verify: accepts the signatures its signing key made of data
Ed25519Verify(verifying_key, data, signature) ==
    signature.signed_with = verifying_key /\ signature.message = data

\* crypto.rs:22  signing_key.verifying_key()
VerifyingKeyOf(signing_key) == signing_key

\* crypto.rs:50-53  CryptoBox::sign
Sign(box, data) == Ok(Ed25519Sign(box.signing_key, data))

VerifyParsesOnly(box, data, signature) == Ok(TRUE)

\* crypto.rs:55-60  CryptoBox::verify of a well-formed signature
Verify(box, data, signature) ==
    Ok(Ed25519Verify(VerifyingKeyOf(box.signing_key), data, signature))

CbInit ==
    /\ crypto = CryptoBoxNew("k1", 1)
    /\ enc_log = <<>>
    /\ dec_last = None
    /\ sig_log = <<>>
    /\ ver_last = None

\* crypto.encrypt(&data, &nonce), the nonce chosen by the caller
CbEncrypt ==
    /\ Len(enc_log) < MaxEncrypt
    /\ \E data \in Plaintexts, nonce \in Nonces :
          enc_log' = Append(enc_log, [data |-> data, nonce |-> nonce,
                                      result |-> Encrypt(crypto, data, nonce)])
    /\ last_op' = "encrypt"
    /\ UNCHANGED <<crypto, dec_last, sig_log, ver_last>>
    /\ UNCHANGED <<now, djVars, pkVars, qosVars, bkVars, kmVars, dcVars, txVars, fcVars, cdVars, lhVars, tpVars, rcVars>>

\* crypto.decrypt(&ciphertext, &nonce) on a ciphertext encrypt returned
CbDecrypt ==
    /\ \E i \in 1..Len(enc_log), nonce \in Nonces :
          dec_last' = Some([data |-> enc_log[i].data, sealed_nonce |-> enc_log[i].nonce,
                            nonce |-> nonce,
                            result |-> Decrypt(crypto, enc_log[i].result.value, nonce)])
    /\ last_op' = "decrypt"
    /\ UNCHANGED <<crypto, enc_log, sig_log, ver_last>>
    /\ UNCHANGED <<now, djVars, pkVars, qosVars, bkVars, kmVars, dcVars, txVars, fcVars, cdVars, lhVars, tpVars, rcVars>>

\* crypto.sign(&data)
CbSign ==
    /\ Len(sig_log) < MaxSign
    /\ \E data \in Plaintexts :
          sig_log' = Append(sig_log, [data |-> data, result |-> Sign(crypto, data)])
    /\ last_op' = "sign"
    /\ UNCHANGED <<crypto, enc_log, dec_last, ver_last>>
    /\ UNCHANGED <<now, djVars, pkVars, qosVars, bkVars, kmVars, dcVars, txVars, fcVars, cdVars, lhVars, tpVars, rcVars>>

\* crypto.verify(&data, &signature) on a signature sign returned
CbVerify ==
    /\ \E i \in 1..Len(sig_log), data \in Plaintexts :
          ver_last' = Some([data |-> data, signed_data |-> sig_log[i].data,
                            result |-> Verify(crypto, data, sig_log[i].result.value)])
    /\ last_op' = "verify"
    /\ UNCHANGED <<crypto, enc_log, dec_last, sig_log>>
    /\ UNCHANGED <<now, djVars, pkVars, qosVars, bkVars, kmVars, dcVars, txVars, fcVars, cdVars, lhVars, tpVars, rcVars>>

(***************************************************************************)
(* CryptoBox: properties                                                   *)
(***************************************************************************)
\* C15: under one key no two encrypt calls that returned a ciphertext used the
\* same nonce: a repeated nonce is rejected, never accepted.
C15_NonceNeverReused ==
    \A i, j \in 1..Len(enc_log) :
        (i < j /\ enc_log[i].result.ok /\ enc_log[j].result.ok)
            => enc_log[i].nonce # enc_log[j].nonce

\* C24: verify(data, sign(data)) returns true, and verify(data2, sign(data))
\* returns false for every data2 other than data.
C24_SignatureSound ==
    ver_last # None =>
        /\ ver_last[1].result.ok
        /\ ver_last[1].result.value = (ver_last[1].data = ver_last[1].signed_data)

\* a signature was checked against other data than it signs, and was refused
C24_Witness ==
    /\ ver_last # None
    /\ ver_last[1].data # ver_last[1].signed_data
    /\ ver_last[1].result = Ok(FALSE)
    /\ Len(sig_log) >= 2

\* C25: decrypt(encrypt(data, n), n) returns data; decrypt(encrypt(data, n), n2)
\* with another nonce n2 returns an error and no plaintext.
C25_AeadRoundTrip ==
    dec_last # None =>
        IF dec_last[1].nonce = dec_last[1].sealed_nonce
        THEN dec_last[1].result.ok /\ dec_last[1].result.value = dec_last[1].data
        ELSE ~dec_last[1].result.ok

\* a ciphertext was opened with another nonce than it was sealed with, and
\* decrypt failed
C25_Witness ==
    /\ dec_last # None
    /\ dec_last[1].nonce # dec_last[1].sealed_nonce
    /\ dec_last[1].data # <<>>
    /\ ~dec_last[1].result.ok
    /\ dec_last[1].result.error = "Crypto"

(***************************************************************************)
(*                     SimpleDeltaCodec  (delta.rs)                        *)
(***************************************************************************)
MaxFrameLen == 2      \* frame lengths 0..MaxFrameLen
MaxFrames == 3        \* frames encoded over a run

FrameBytes == {1, 2}  \* frame byte values explored

Frames == UNION {[1..n -> FrameBytes] : n \in 0..MaxFrameLen}

\* u8 ^ u8, bit by bit
RECURSIVE Xor(_, _)
Xor(a, b) ==
    IF a = 0 /\ b = 0 THEN 0
    ELSE (((a % 2) + (b % 2)) % 2) + 2 * Xor(a \div 2, b \div 2)

XorZipTruncating(bytes, prev) ==
    [i \in 1..Min(Len(bytes), Len(prev)) |-> Xor(bytes[i], prev[i])]

\* delta.rs:20-24, 40-44  bytes.zip(prev.chain(repeat(&0))).map(|(b, p)| b ^ p)
XorZip(bytes, prev) ==
    [i \in 1..Len(bytes) |-> Xor(bytes[i], IF i <= Len(prev) THEN prev[i] ELSE 0)]

\* Option::or
OptionOr(a, b) == IF a # None THEN a ELSE b

\* delta.rs:16-35  SimpleDeltaCodec::encode; self_previous is self.previous
DeltaEncode(self_previous, current, previous) ==
    LET reference == OptionOr(previous, self_previous)
    IN  IF reference # None
        THEN [previous |-> Some(current), result |-> XorZip(current, reference[1])]
        ELSE [previous |-> Some(current), result |-> current]

\* delta.rs:37-55  SimpleDeltaCodec::decode
DeltaDecode(self_previous, delta, previous) ==
    LET reference == OptionOr(previous, self_previous)
    IN  IF reference # None
        THEN LET current == XorZip(delta, reference[1])
             IN  [previous |-> Some(current), result |-> current]
        ELSE [previous |-> Some(delta), result |-> delta]

DcInit ==
    /\ encoder = None
    /\ decoder = None
    /\ frames = <<>>
    /\ deltas = <<>>
    /\ decoded = <<>>

\* encoder.encode(frame, None)
DcEncode ==
    /\ Len(frames) < MaxFrames
    /\ \E frame \in Frames :
          LET r == DeltaEncode(encoder, frame, None)
          IN  /\ encoder' = r.previous
              /\ frames' = Append(frames, frame)
              /\ deltas' = Append(deltas, r.result)
    /\ last_op' = "encode"
    /\ UNCHANGED <<decoder, decoded>>
    /\ UNCHANGED <<now, djVars, pkVars, qosVars, bkVars, kmVars, cbVars, txVars, fcVars, cdVars, lhVars, tpVars, rcVars>>

\* decoder.decode(delta, None) on the next output of the encoder
DcDecode ==
    /\ Len(decoded) < Len(deltas)
    /\ LET r == DeltaDecode(decoder, deltas[Len(decoded) + 1], None)
       IN  /\ decoder' = r.previous
           /\ decoded' = Append(decoded, r.result)
    /\ last_op' = "decode"
    /\ UNCHANGED <<encoder, frames, deltas>>
    /\ UNCHANGED <<now, djVars, pkVars, qosVars, bkVars, kmVars, cbVars, txVars, fcVars, cdVars, lhVars, tpVars, rcVars>>

(***************************************************************************)
(* SimpleDeltaCodec: properties                                            *)
(***************************************************************************)
\* C16: the frames a fresh decoder returns for the encoder's outputs, decoded
\* in order, are the frames the encoder was given, whatever their lengths; the
\* encoder's first output is the first frame itself.
C16_DeltaRoundTrip ==
    /\ \A i \in 1..Len(decoded) : decoded[i] = frames[i]
    /\ Len(frames) >= 1 => deltas[1] = frames[1]

\* three frames went through, the second longer than the first and than the
\* third, and the second was not sent verbatim
C16_Witness ==
    /\ Len(decoded) >= 3
    /\ Len(frames[1]) < Len(frames[2])
    /\ Len(frames[3]) < Len(frames[2])
    /\ Len(frames[3]) > 0
    /\ deltas[2] # frames[2]
    /\ decoded[3] = frames[3]

(***************************************************************************)
(*                       TxConditioner  (ccem.rs)                          *)
(***************************************************************************)
smoothing_window == 1 \* TxConditioner::new(smoothing_window), in clock ticks
MaxSubmit == 4        \* envelopes submitted over a run

\* payloads of the envelopes submitted
TxPayloads == {<<>>, <<1>>}

TxEnvelope(id, payload) == [id |-> id, payload |-> payload]

WithinWindowNever(elapsed) == FALSE

\* ccem.rs:30  the call falls into the smoothing window
WithinWindow(elapsed) == elapsed < smoothing_window

RequeueFront(q, envelope) == <<envelope>> \o q

RequeueDropped(q, envelope) == q

\* ccem.rs:41  the submitted envelope takes the place of the one sent
Requeue(q, envelope) == Append(q, envelope)

\* ccem.rs:25-46  TxConditioner::condition at instant t
Condition(last, q, envelope, t) ==
    IF last # None /\ WithinWindow(t - last[1])
    THEN [last_send |-> last, queue |-> Append(q, envelope), result |-> None]
    ELSE IF q # <<>>
         THEN [last_send |-> Some(t), queue |-> Requeue(Tail(q), envelope),
               result |-> Some(Head(q))]
         ELSE [last_send |-> Some(t), queue |-> q, result |-> Some(envelope)]

TxInit ==
    /\ last_send = None
    /\ queue = <<>>
    /\ submitted = <<>>
    /\ admitted = <<>>
    /\ tx_last = None

\* conditioner.condition(envelope)
TxCondition ==
    /\ Len(submitted) < MaxSubmit
    /\ \E payload \in TxPayloads :
       LET envelope == TxEnvelope(Len(submitted) + 1, payload)
           r        == Condition(last_send, queue, envelope, now)
       IN  /\ last_send' = r.last_send
           /\ queue' = r.queue
           /\ submitted' = Append(submitted, envelope)
           /\ admitted' = IF r.result = None THEN admitted
                          ELSE Append(admitted, [envelope |-> r.result[1], at |-> now])
           /\ tx_last' = [envelope |-> envelope, at |-> now, result |-> r.result]
    /\ last_op' = "condition"
    /\ UNCHANGED <<now, djVars, pkVars, qosVars, bkVars, kmVars, cbVars, dcVars, fcVars, cdVars, lhVars, tpVars, rcVars>>

(***************************************************************************)
(* TxConditioner: properties                                               *)
(***************************************************************************)
\* C17: any two envelopes condition returned were returned at instants at
\* least smoothing_window apart; a call made less than smoothing_window after
\* the last admission queues its envelope and returns None; the first call on
\* a fresh conditioner returns its envelope.
C17_SmoothingGap ==
    /\ [](\A i, j \in 1..Len(admitted) :
            i < j => admitted[j].at - admitted[i].at >= smoothing_window)
    /\ [][last_op' = "condition" =>
            /\ (admitted # <<>> /\ now' - admitted[Len(admitted)].at < smoothing_window)
                  => /\ tx_last'.result = None
                     /\ queue' = Append(queue, tx_last'.envelope)
                     /\ admitted' = admitted
            /\ submitted = <<>> => tx_last'.result = Some(tx_last'.envelope)]_vars

\* two envelopes were admitted and the last call, inside the window, was deferred
C17_Witness ==
    /\ last_op = "condition"
    /\ Len(admitted) >= 2
    /\ tx_last.result = None
    /\ tx_last.at - admitted[Len(admitted)].at < smoothing_window
    /\ queue # <<>>

\* C18: the envelopes condition returned are, in order, the first envelopes
\* submitted, none of them twice; a call after the window that finds envelopes
\* queued returns the head of the queue and queues the submitted envelope
\* behind the others.
C18_SmoothingFifo ==
    /\ [](/\ Len(admitted) <= Len(submitted)
          /\ \A i \in 1..Len(admitted) : admitted[i].envelope = submitted[i])
    /\ [][(last_op' = "condition" /\ queue # <<>> /\ tx_last'.result # None) =>
            /\ tx_last'.result = Some(Head(queue))
            /\ queue' = Append(Tail(queue), tx_last'.envelope)]_vars

\* a call after the window returned a queued envelope while two more were
\* waiting, and the submitted one went behind them
C18_Witness ==
    /\ last_op = "condition"
    /\ Len(admitted) >= 2
    /\ tx_last.result # None
    /\ tx_last.result # Some(tx_last.envelope)
    /\ Len(queue) >= 2
    /\ queue[Len(queue)] = tx_last.envelope

\* C38: the number of envelopes in the queue never decreases across
\* condition calls; once an envelope has been deferred, every later admission
\* returns a queued envelope and queues the submitted one, so the queue stays
\* non-empty and its last envelopes remain queued when submissions stop.
C38_QueueNeverShrinks ==
    /\ [][Len(queue') >= Len(queue)]_vars
    /\ [][queue # <<>> => queue' # <<>>]_vars
    /\ [][(last_op' = "condition" /\ queue # <<>> /\ tx_last'.result # None) =>
            /\ tx_last'.result # Some(tx_last'.envelope)
            /\ tx_last'.result[1] \in Range(queue)
            /\ tx_last'.envelope \in Range(queue')
            /\ Len(queue') = Len(queue)]_vars

\* the last submission of the run was admitted in exchange for a queued
\* envelope, and deferred envelopes are still queued
C38_Witness ==
    /\ last_op = "condition"
    /\ Len(submitted) = MaxSubmit
    /\ tx_last.result # None
    /\ tx_last.result # Some(tx_last.envelope)
    /\ queue # <<>>
    /\ Len(admitted) + Len(queue) = Len(submitted)

(***************************************************************************)
(*                      ReedSolomonFec  (fec.rs)                           *)
(* The reed_solomon_erasure crate is outside the repository.  It is        *)
(* modelled by its contract: a parity byte is a symbol that stands for a   *)
(* function of the k data bytes of its column, and any k of the k+m shards *)
(* determine all of them.                                                  *)
(***************************************************************************)
MaxFecLen == 3        \* input lengths 0..MaxFecLen
MaxK == 2             \* k in 0..MaxK
MaxM == 2             \* m in 0..MaxM

FecData == UNION {[1..n -> Bytes] : n \in 0..MaxFecLen}

\* a call that aborts the thread
Panic == [ok |-> FALSE, error |-> "panic"]

\* ReedSolomon::new(k, m)
RsNew(k, m) == IF k >= 1 /\ m >= 1 THEN Ok([k |-> k, m |-> m]) ELSE Err("Rs")

\* the data bytes of column c
Column(shards, k, c) == [i \in 1..k |-> shards[i][c]]

\* parity byte j of a column
ParityByte(j, column) == [parity |-> j, of |-> column]

\* every shard has the same, non-zero length; sizes is the set of their lengths
ShardSizesOk(sizes) == 0 \notin sizes /\ Cardinality(sizes) <= 1

\* ReedSolomon::encode(&mut shards): fills the m parity shards
RsEncode(shards, k, m) ==
    IF Len(shards) # k + m \/ ~ShardSizesOk({Len(shards[i]) : i \in 1..Len(shards)})
    THEN Err("Rs")
    ELSE Ok([i \in 1..(k + m) |->
                IF i <= k THEN shards[i]
                ELSE [c \in 1..Len(shards[1]) |->
                        ParityByte(i - k, Column(shards, k, c))]])

\* ReedSolomon::reconstruct(&mut shards): restores the absent shards
RsReconstruct(shards, k, m) ==
    LET present == {i \in 1..Len(shards) : shards[i] # None}
    IN  IF Len(shards) # k + m \/ Cardinality(present) < k
           \/ ~ShardSizesOk({Len(shards[i][1]) : i \in present})
        THEN Err("Rs")
        ELSE
          LET size == Len(shards[CHOOSE i \in present : TRUE][1])
              DataByte(i, c) ==
                  IF i \in present THEN shards[i][1][c]
                  ELSE LET p == CHOOSE j \in present : j > k
                       IN  shards[p][1][c].of[i]
              data == [i \in 1..k |-> [c \in 1..size |-> DataByte(i, c)]]
          IN  Ok([i \in 1..(k + m) |->
                    IF i \in present THEN shards[i]
                    ELSE IF i <= k THEN Some(data[i])
                    ELSE Some([c \in 1..size |->
                                 ParityByte(i - k, Column(data, k, c))])])

\* a shard size rounded down instead of up
ShardSizeFloor(len, k) == len \div k

\* fec.rs:14  shard_size
ShardSize(len, k) == (len + k - 1) \div k

\* fec.rs:18-19  data.to_vec() resized to padded_size with zeros
Padded(data, padded_size) ==
    [i \in 1..padded_size |-> IF i <= Len(data) THEN data[i] ELSE 0]

\* fec.rs:22-25  padded.chunks(shard_size), shard_size > 0
Chunks(padded, shard_size) ==
    [i \in 1..((Len(padded) + shard_size - 1) \div shard_size) |->
        SubSeq(padded, (i - 1) * shard_size + 1, Min(i * shard_size, Len(padded)))]

\* fec.rs:9-37  ReedSolomonFec::encode
FecEncode(data, k, m) ==
    IF ~RsNew(k, m).ok THEN Err("Fec")
    ELSE
      LET shard_size  == ShardSize(Len(data), k)
          padded_size == shard_size * k
          padded      == Padded(data, padded_size)
      IN  IF shard_size = 0 THEN Panic      \* chunks(0) panics
          ELSE
            LET shards == Chunks(padded, shard_size)
                            \o [j \in 1..m |-> [c \in 1..shard_size |-> 0]]
                rs     == RsEncode(shards, k, m)
            IN  IF rs.ok THEN Ok(rs.value) ELSE Err("Fec")

RECURSIVE Flatten(_)
Flatten(ss) == IF ss = <<>> THEN <<>> ELSE Head(ss) \o Flatten(Tail(ss))

\* fec.rs:54-58  the shards of shards[..k] that are Some, concatenated
ConcatData(shards, k) ==
    LET some == SelectSeq(SubSeq(shards, 1, k), LAMBDA s : s # None)
    IN  Flatten([i \in 1..Len(some) |-> some[i][1]])

ReconstructErrorIgnored(shards, k) == Ok(ConcatData(shards, k))

\* fec.rs:50-51  a reconstruct error leaves decode as AriaError::Fec
ReconstructError(shards, k) == Err("Fec")

\* fec.rs:39-61  ReedSolomonFec::decode
FecDecode(fragments_, k, m) ==
    IF ~RsNew(k, m).ok THEN Err("Fec")
    ELSE
      LET rs == RsReconstruct(fragments_, k, m)
      IN  IF ~rs.ok THEN ReconstructError(fragments_, k)
          ELSE Ok(ConcatData(rs.value, k))

Present == {i \in 1..Len(survivors) : survivors[i] # None}

FcInit ==
    /\ fec_input = None
    /\ encoded = None
    /\ survivors = <<>>
    /\ fec_decoded = None

\* fec.encode(data, k, m); every shard is sent
FcEncode ==
    /\ fec_input = None
    /\ \E data \in FecData, k \in 0..MaxK, m \in 0..MaxM :
          LET r == FecEncode(data, k, m)
          IN  /\ fec_input' = Some([data |-> data, k |-> k, m |-> m])
              /\ encoded' = Some(r)
              /\ survivors' = IF r.ok
                              THEN [i \in 1..Len(r.value) |-> Some(r.value[i])]
                              ELSE <<>>
    /\ last_op' = "encode"
    /\ UNCHANGED fec_decoded
    /\ UNCHANGED <<now, djVars, pkVars, qosVars, bkVars, kmVars, cbVars, dcVars, txVars, cdVars, lhVars, tpVars, rcVars>>

\* the channel loses one shard: the receiver marks it absent
FcLose ==
    /\ fec_decoded = None
    /\ \E i \in Present : survivors' = [survivors EXCEPT ![i] = None]
    /\ last_op' = "lose"
    /\ UNCHANGED <<fec_input, encoded, fec_decoded>>
    /\ UNCHANGED <<now, djVars, pkVars, qosVars, bkVars, kmVars, cbVars, dcVars, txVars, cdVars, lhVars, tpVars, rcVars>>

\* fec.decode(&survivors, k, m) with the k and m of the encode call
FcDecode ==
    /\ encoded # None
    /\ encoded[1].ok
    /\ fec_decoded = None
    /\ fec_decoded' = Some(FecDecode(survivors, fec_input[1].k, fec_input[1].m))
    /\ last_op' = "decode"
    /\ UNCHANGED <<fec_input, encoded, survivors>>
    /\ UNCHANGED <<now, djVars, pkVars, qosVars, bkVars, kmVars, cbVars, dcVars, txVars, cdVars, lhVars, tpVars, rcVars>>

(***************************************************************************)
(* ReedSolomonFec: properties                                              *)
(***************************************************************************)
\* C11: for k >= 1, m >= 1 and a non-empty input, decode of any at least k
\* surviving shards of encode(data, k, m) returns the input bytes, of the
\* input's length, with no padding bytes after them.
C11_FecTolerance ==
    (fec_decoded # None /\ fec_input[1].k >= 1 /\ fec_input[1].m >= 1
        /\ fec_input[1].data # <<>> /\ Cardinality(Present) >= fec_input[1].k)
    => /\ fec_decoded[1].ok
       /\ fec_decoded[1].value = fec_input[1].data

\* C12: when fewer than k of the k+m shards are present, decode returns an
\* Fec error and no byte sequence.
C12_FecFailure ==
    (fec_decoded # None /\ Cardinality(Present) < fec_input[1].k)
    => /\ ~fec_decoded[1].ok
       /\ fec_decoded[1].error = "Fec"

\* decode was called with some, but fewer than k, shards present and failed
C12_Witness ==
    /\ fec_decoded # None
    /\ Present # {}
    /\ Cardinality(Present) < fec_input[1].k
    /\ Len(survivors) = fec_input[1].k + fec_input[1].m
    /\ ~fec_decoded[1].ok

\* the input byte at 0-based position j of the padded stream
PaddedByte(data, j) == IF j < Len(data) THEN data[j + 1] ELSE 0

\* C26: encode(data, k, m) with k >= 1, m >= 1 and non-empty data returns
\* exactly k + m shards, each of length ceil(len(data) / k); the first k
\* shards are the input, zero-padded to a multiple of k, split in order, and
\* the following m shards are the parity of the first k.
C26_ShardShape ==
    (encoded # None /\ fec_input[1].k >= 1 /\ fec_input[1].m >= 1
        /\ fec_input[1].data # <<>>)
    => LET data == fec_input[1].data
           k    == fec_input[1].k
           m    == fec_input[1].m
           size == CeilDiv(Len(data), k)
           r    == encoded[1]
       IN  /\ r.ok
           /\ Len(r.value) = k + m
           /\ \A i \in 1..(k + m) : Len(r.value[i]) = size
           /\ \A i \in 1..k : \A c \in 1..size :
                 r.value[i][c] = PaddedByte(data, (i - 1) * size + (c - 1))
           /\ \A i \in 1..m : \A c \in 1..size :
                 r.value[k + i][c] = ParityByte(i, Column(r.value, k, c))

\* encode was called on an input whose length is not a multiple of k, so
\* the last data shard ends with padding
C26_Witness ==
    /\ encoded # None
    /\ encoded[1].ok
    /\ fec_input[1].k = 2
    /\ fec_input[1].m >= 1
    /\ Len(fec_input[1].data) = 3
    /\ Len(encoded[1].value) = fec_input[1].k + fec_input[1].m
    /\ encoded[1].value[2][2] = 0

(***************************************************************************)
(*                      ProtobufCodec  (codec.rs)                          *)
(***************************************************************************)
SchemaIds == {1, 2}                       \* schema_id values explored
SchemaNames == {"Envelope", "Telemetry"}  \* names given to register_schema
Values == {1, 42}                         \* the u32 objects handed to encode

\* bincode::serialize(&u32): four bytes, least significant first
Bincode(schema_id) ==
    [i \in 1..4 |-> (schema_id \div (256 ^ (i - 1))) % 256]

\* codec.rs:51-56  SchemaRegistry::new
SchemaRegistryNew == [schema_id \in SchemaIds |-> None]

\* codec.rs:58-60  SchemaRegistry::register
Register(reg, schema_id, name) == [reg EXCEPT ![schema_id] = Some(name)]

\* codec.rs:62-64  SchemaRegistry::get
RegistryGet(reg, schema_id) == reg[schema_id]

\* codec.rs:24-34  ProtobufCodec::encode: obj is never read
CodecEncode(obj, schema_id) == Ok(Bincode(schema_id))

\* codec.rs:36-44  ProtobufCodec::decode: the registry is never read
CodecDecode(bytes, schema_id) ==
    IF bytes = <<>> THEN Err("Serialization") ELSE Ok(schema_id)

\* byte strings handed to decode: nothing, or what an encode call returns
WireInputs == {<<>>} \cup {Bincode(s) : s \in SchemaIds}

CdInit ==
    /\ schemas = SchemaRegistryNew
    /\ codec_enc = None
    /\ codec_dec = None

\* codec.register_schema(schema_id, name)
CdRegisterSchema ==
    /\ \E schema_id \in SchemaIds, name \in SchemaNames :
          schemas' = Register(schemas, schema_id, name)
    /\ last_op' = "register_schema"
    /\ UNCHANGED <<codec_enc, codec_dec>>
    /\ UNCHANGED <<now, djVars, pkVars, qosVars, bkVars, kmVars, cbVars, dcVars, txVars, fcVars, lhVars, tpVars, rcVars>>

\* codec.encode(&obj, schema_id)
CdEncode ==
    /\ \E obj \in Values, schema_id \in SchemaIds :
          codec_enc' = Some([obj |-> obj, schema_id |-> schema_id,
                             registered |-> RegistryGet(schemas, schema_id) # None,
                             result |-> CodecEncode(obj, schema_id)])
    /\ last_op' = "encode"
    /\ UNCHANGED <<schemas, codec_dec>>
    /\ UNCHANGED <<now, djVars, pkVars, qosVars, bkVars, kmVars, cbVars, dcVars, txVars, fcVars, lhVars, tpVars, rcVars>>

\* codec.decode(&bytes, schema_id)
CdDecode ==
    /\ \E bytes \in WireInputs, schema_id \in SchemaIds :
          codec_dec' = Some([bytes |-> bytes, schema_id |-> schema_id,
                             registered |-> RegistryGet(schemas, schema_id) # None,
                             result |-> CodecDecode(bytes, schema_id)])
    /\ last_op' = "decode"
    /\ UNCHANGED <<schemas, codec_enc>>
    /\ UNCHANGED <<now, djVars, pkVars, qosVars, bkVars, kmVars, cbVars, dcVars, txVars, fcVars, lhVars, tpVars, rcVars>>

\* C27: for every registered schema s and every value v,
\* decode(encode(v, s), s) succeeds and yields a value equal to v.
C27_CodecRoundTrip ==
    (codec_enc # None /\ codec_dec # None
        /\ codec_enc[1].registered /\ codec_dec[1].registered
        /\ codec_enc[1].result.ok
        /\ codec_dec[1].bytes = codec_enc[1].result.value
        /\ codec_dec[1].schema_id = codec_enc[1].schema_id)
    => /\ codec_dec[1].result.ok
       /\ codec_dec[1].result.value = codec_enc[1].obj

\* C28: decode called with a schema_id that is not in the schema registry
\* fails with SchemaUnknown and returns no decoded value.
C28_UnknownSchema ==
    (codec_dec # None /\ ~codec_dec[1].registered)
    => /\ ~codec_dec[1].result.ok
       /\ codec_dec[1].result.error = "SchemaUnknown"

(***************************************************************************)
(*                 LinkHealthController  (link_health.rs)                  *)
(* f32 fields are kept in fixed point: packet_loss_rate in percent,        *)
(* bandwidth_mbps in tenths of a Mbps, latency_ms in milliseconds and      *)
(* adjust_rate in tenths.                                                  *)
(***************************************************************************)
target_latency_ms == 100         \* the latency target the advice is judged by

LossPercents == {0, 10, 15}              \* packet_loss_rate: 0.0, 0.1, 0.15
LatenciesMs == {0, 50, 150, 200}         \* latency_ms
BandwidthTenths == {0, 5, 10, 50}        \* bandwidth_mbps: 0.0, 0.5, 1.0, 5.0

\* traits.rs:320-326  SystemMetrics (cpu_usage and memory_mb are never read)
SystemMetricsOf(loss, latency, bandwidth) ==
    [packet_loss_rate |-> loss, latency_ms |-> latency, bandwidth_mbps |-> bandwidth]

\* link_health.rs:34  self.metrics.packet_loss_rate > 0.1
LossyLink(mt) == mt.packet_loss_rate > 10

\* link_health.rs:38  self.metrics.bandwidth_mbps < 1.0
NarrowLink(mt) == mt.bandwidth_mbps < 10

\* link_health.rs:26-43  LinkHealthController::advise
Advise(mt) ==
    [adjust_rate  |-> None,
     adjust_fec   |-> IF LossyLink(mt) THEN Some(<<4, 2>>) ELSE None,
     adjust_codec |-> IF NarrowLink(mt) THEN Some("LZ4") ELSE None]

\* link_health.rs:10-20  LinkHealthController::new
LhInit ==
    /\ metrics = SystemMetricsOf(0, 0, 0)
    /\ lh_advice = None

\* controller.update_metrics(metrics)
LhUpdateMetrics ==
    /\ \E loss \in LossPercents, latency \in LatenciesMs, bandwidth \in BandwidthTenths :
          metrics' = SystemMetricsOf(loss, latency, bandwidth)
    /\ last_op' = "update_metrics"
    /\ UNCHANGED lh_advice
    /\ UNCHANGED <<now, djVars, pkVars, qosVars, bkVars, kmVars, cbVars, dcVars, txVars, fcVars, cdVars, tpVars, rcVars>>

\* controller.advise()
LhAdvise ==
    /\ lh_advice' = Some(Advise(metrics))
    /\ last_op' = "advise"
    /\ UNCHANGED metrics
    /\ UNCHANGED <<now, djVars, pkVars, qosVars, bkVars, kmVars, cbVars, dcVars, txVars, fcVars, cdVars, tpVars, rcVars>>

\* C29: the advice follows the reference thresholds applied to the most
\* recently supplied metrics: adjust_fec = (4, 2) when the loss rate is over
\* 10%, the fast compressor when bandwidth is below 1 Mbps, and when latency
\* exceeds 1.5 times the target, adjust_rate = 0.8 with the fast compressor.
C29_AdviceThresholds ==
    (last_op = "advise" /\ lh_advice # None)
    => LET advice == lh_advice[1]
       IN  /\ metrics.packet_loss_rate > 10 => advice.adjust_fec = Some(<<4, 2>>)
           /\ metrics.bandwidth_mbps < 10 => advice.adjust_codec = Some("LZ4")
           /\ 2 * metrics.latency_ms > 3 * target_latency_ms
                 => /\ advice.adjust_rate = Some(8)
                    /\ advice.adjust_codec = Some("LZ4")

(***************************************************************************)
(*       QuicTransport, MqttSnTransport, DtnTransport  (transport.rs)      *)
(***************************************************************************)
MaxStore == 2         \* send calls on the DTN transport explored

Transports == {"QUIC", "MQTT-SN", "DTN"}
TpEnvelopeIds == {0, 1}

\* the () of AriaResult<()>
Unit == "()"

\* transport.rs:27-31  QuicTransport::send
QuicSend(endpoint, envelope) == Ok(Unit)

\* transport.rs:67-70  MqttSnTransport::send
MqttSnSend(envelope) == Ok(Unit)

\* transport.rs:105-110  DtnTransport::send: the store after the call
DtnStore(store, envelope) == Append(store, envelope)

\* transport.rs:105-110  DtnTransport::send: the value returned
DtnSend(store, envelope) == Ok(Unit)

\* transport.rs:38-42, 76-79, 116-119  connect: nothing is stored
Connect(endpoint) == Ok(Unit)

\* transport.rs:44-48, 81-84, 121-124  disconnect
Disconnect == Ok(Unit)

\* the value send returns on transport t
SendResult(t, envelope) ==
    CASE t = "QUIC"    -> QuicSend(quic_endpoint, envelope)
      [] t = "MQTT-SN" -> MqttSnSend(envelope)
      [] t = "DTN"     -> DtnSend(dtn_store, envelope)

\* transport.rs:16-22, 60-62, 96-100  the three constructors
TpInit ==
    /\ quic_endpoint = None
    /\ dtn_store = <<>>
    /\ tp_connected = {}
    /\ tp_last = None

\* transport.send(envelope).await
TpSend ==
    /\ \E t \in Transports, id \in TpEnvelopeIds :
          /\ t = "DTN" => Len(dtn_store) < MaxStore
          /\ dtn_store' = IF t = "DTN" THEN DtnStore(dtn_store, id) ELSE dtn_store
          /\ tp_last' = Some([transport |-> t, op |-> "send",
                              connected |-> t \in tp_connected,
                              result |-> SendResult(t, id)])
    /\ last_op' = "send"
    /\ UNCHANGED <<quic_endpoint, tp_connected>>
    /\ UNCHANGED <<now, djVars, pkVars, qosVars, bkVars, kmVars, cbVars, dcVars, txVars, fcVars, cdVars, lhVars, rcVars>>

\* transport.connect(endpoint).await
TpConnect ==
    /\ \E t \in Transports :
          /\ tp_connected' = tp_connected \cup {t}
          /\ tp_last' = Some([transport |-> t, op |-> "connect",
                              connected |-> t \in tp_connected,
                              result |-> Connect("endpoint")])
    /\ last_op' = "connect"
    /\ UNCHANGED <<quic_endpoint, dtn_store>>
    /\ UNCHANGED <<now, djVars, pkVars, qosVars, bkVars, kmVars, cbVars, dcVars, txVars, fcVars, cdVars, lhVars, rcVars>>

\* transport.disconnect().await
TpDisconnect ==
    /\ \E t \in Transports :
          /\ quic_endpoint' = IF t = "QUIC" THEN None ELSE quic_endpoint
          /\ tp_connected' = tp_connected \ {t}
          /\ tp_last' = Some([transport |-> t, op |-> "disconnect",
                              connected |-> t \in tp_connected,
                              result |-> Disconnect])
    /\ last_op' = "disconnect"
    /\ UNCHANGED dtn_store
    /\ UNCHANGED <<now, djVars, pkVars, qosVars, bkVars, kmVars, cbVars, dcVars, txVars, fcVars, cdVars, lhVars, rcVars>>

\* C30: send on a transport that has not been connected, or that has been
\* disconnected since, fails with InvalidState instead of reporting success.
C30_SendBeforeConnect ==
    (tp_last # None /\ tp_last[1].op = "send" /\ ~tp_last[1].connected)
    => /\ ~tp_last[1].result.ok
       /\ tp_last[1].result.error = "InvalidState"

\* C31: Packetizer::fragment never overwrites a fragment_info that is
\* already set: every envelope it returns for an input that is itself a
\* fragment carries the input's fragment_info.
C31_NoRestamp ==
    (origin # None /\ origin[1].fragment_info # None)
    => \A k \in 1..Len(fragments) :
          fragments[k].fragment_info = origin[1].fragment_info

\* units the dequeue step took out of the bucket of priority p, beyond the
\* refill for the time elapsed
Consumed(p) ==
    Available(queues[p].token_bucket, now) - queues'[p].token_bucket.tokens

\* C32: dequeue consumes exactly one token, from the bucket of the priority
\* whose envelope it returns; buckets of priorities whose queues are empty
\* lose no token, and a dequeue that returns nothing consumes no token.
C32_TokenAccounting ==
    [][last_op' = "dequeue" =>
        /\ \A p \in Priorities :
              queues[p].queue = <<>> => Consumed(p) = 0
        /\ deq_result' = None => \A p \in Priorities : Consumed(p) = 0
        /\ deq_result' # None =>
              \A p \in Priorities :
                 Consumed(p) = IF p = deq_result'[1].priority THEN TokenUnit ELSE 0]_vars

(***************************************************************************)
(*                     RecoveryManager  (recovery.rs)                      *)
(***************************************************************************)
MaxRecSeq == 3        \* expected_seq, received_seq in 0..MaxRecSeq
MaxLost == 4          \* conceal_loss is explored while lost_packets is shorter

SeqRangeInclusive(a, b) == [i \in 1..(b - a + 1) |-> a + i - 1]

\* recovery.rs:23  expected_seq..received_seq, in order (empty unless a < b)
SeqRange(a, b) == [i \in 1..(b - a) |-> a + i - 1]

\* recovery.rs:21-25  RecoveryManager::conceal_loss
ConcealLoss(lost, expected_seq, received_seq) ==
    [lost_packets |-> lost \o SeqRange(expected_seq, received_seq),
     output       |-> <<>>]

\* recovery.rs:27-29  RecoveryManager::get_lost_count
GetLostCount(lost) == Len(lost)

\* recovery.rs:10-14  RecoveryManager::new
RcInit ==
    /\ lost_packets = <<>>
    /\ rc_recorded = 0
    /\ rc_last = None
    /\ rc_count = None

\* manager.conceal_loss(expected_seq, received_seq)
RcConcealLoss ==
    /\ Len(lost_packets) < MaxLost
    /\ \E expected_seq \in 0..MaxRecSeq, received_seq \in 0..MaxRecSeq :
          LET r == ConcealLoss(lost_packets, expected_seq, received_seq)
          IN  /\ lost_packets' = r.lost_packets
              /\ rc_recorded' = rc_recorded
                                  + Cardinality({s \in 0..MaxRecSeq :
                                        expected_seq <= s /\ s < received_seq})
              /\ rc_last' = Some([expected_seq |-> expected_seq,
                                  received_seq |-> received_seq,
                                  output |-> r.output])
    /\ last_op' = "conceal_loss"
    /\ UNCHANGED rc_count
    /\ UNCHANGED <<now, djVars, pkVars, qosVars, bkVars, kmVars, cbVars, dcVars, txVars, fcVars, cdVars, lhVars, tpVars>>

\* manager.get_lost_count()
RcGetLostCount ==
    /\ rc_count' = Some(GetLostCount(lost_packets))
    /\ last_op' = "get_lost_count"
    /\ UNCHANGED <<lost_packets, rc_recorded, rc_last>>
    /\ UNCHANGED <<now, djVars, pkVars, qosVars, bkVars, kmVars, cbVars, dcVars, txVars, fcVars, cdVars, lhVars, tpVars>>

\* the entries the last conceal_loss call appended
Appended == SubSeq(lost_packets', Len(lost_packets) + 1, Len(lost_packets'))

InvalidEncode(call) == call.k = 0 \/ call.m = 0 \/ call.data = <<>>

\* C40: encode and decode report every invalid call (k = 0, m = 0, empty
\* input data, a shard list whose length is not k + m) as an Fec error
\* result; they never abort and never return shards or data for it.
C40_InvalidInputIsError ==
    /\ (encoded # None /\ InvalidEncode(fec_input[1]))
          => (~encoded[1].ok /\ encoded[1].error = "Fec")
    /\ (fec_decoded # None
            /\ (InvalidEncode(fec_input[1])
                  \/ Len(survivors) # fec_input[1].k + fec_input[1].m))
          => (~fec_decoded[1].ok /\ fec_decoded[1].error = "Fec")

InitAll == now = 0 /\ last_op = "new" /\ DjInit /\ PkInit /\ QosInit /\ BkInit /\ KmInit /\ CbInit /\ DcInit /\ TxInit /\ FcInit /\ CdInit /\ LhInit /\ TpInit /\ RcInit

NextDeJitter == DjAdd
SpecDeJitter == InitAll /\ [][NextDeJitter]_vars

NextPacket == PkFragment \/ PkAddFragment \/ PkAddPlain
SpecPacket == InitAll /\ [][NextPacket]_vars

NextQoS == QosEnqueue \/ QosDequeue \/ QosShape \/ Tick
SpecQoS == InitAll /\ [][NextQoS]_vars

NextBucket == BkTryConsume \/ BkRefill \/ Tick
SpecBucket == InitAll /\ [][NextBucket]_vars

NextKeyManager == KmAddKey \/ KmRotate
SpecKeyManager == InitAll /\ [][NextKeyManager]_vars

NextCrypto == CbEncrypt \/ CbDecrypt
SpecCrypto == InitAll /\ [][NextCrypto]_vars

NextDelta == DcEncode \/ DcDecode
SpecDelta == InitAll /\ [][NextDelta]_vars

NextTx == TxCondition \/ Tick
SpecTx == InitAll /\ [][NextTx]_vars

NextFec == FcEncode \/ FcLose \/ FcDecode
SpecFec == InitAll /\ [][NextFec]_vars

\* the defragmenter fed by the packetizer and by a sender that keeps the
\* origin's id on its fragments
NextDefrag == PkFragment \/ PkAddFragment \/ PkAddShared
SpecDefrag == InitAll /\ [][NextDefrag]_vars

\* the shaper with per-topic policies being set
NextPolicy == QosSetPolicy \/ QosEnqueue \/ QosDequeue
SpecPolicy == InitAll /\ [][NextPolicy]_vars

NextSign == CbSign \/ CbVerify
SpecSign == InitAll /\ [][NextSign]_vars

NextCodec == CdRegisterSchema \/ CdEncode \/ CdDecode
SpecCodec == InitAll /\ [][NextCodec]_vars

NextLinkHealth == LhUpdateMetrics \/ LhAdvise
SpecLinkHealth == InitAll /\ [][NextLinkHealth]_vars

NextTransport == TpSend \/ TpConnect \/ TpDisconnect
SpecTransport == InitAll /\ [][NextTransport]_vars

\* the defragmenter with its scheduled sweep, as time passes
NextGc == PkFragment \/ PkAddFragment \/ PkGcExpired \/ Tick
SpecGc == InitAll /\ [][NextGc]_vars

NextRecovery == RcConcealLoss \/ RcGetLostCount
SpecRecovery == InitAll /\ [][NextRecovery]_vars

\* the defragmenter fed from the network with arbitrary fragment metadata
NextReassembly == PkAddArriving \/ PkGcExpired \/ Tick
SpecReassembly == InitAll /\ [][NextReassembly]_vars

=============================================================================
